---- MODULE Spec2Model ----
(***************************************************************************)
(* make_macs2_xls.py: convert MACS2 output to an XLS spreadsheet.          *)
(*                                                                         *)
(* The program is a linear pipeline (parse arguments, read the file,       *)
(* remove the column-name row, detect the MACS version, sort, restore the  *)
(* column-name row, add the "order" column, reorder the columns, render    *)
(* the data sheet, insert six formula columns, save).  pc is the position  *)
(* in the script.                                                          *)
(*                                                                         *)
(* Text is modelled as a sequence of atoms: an atom is either one of the   *)
(* special characters " ", "\t", "#" or a chunk of characters that         *)
(* contains none of them.  strip, split, startswith and join are computed  *)
(* on these sequences as Python computes them on strings.                  *)
(***************************************************************************)
EXTENDS Integers, Sequences, FiniteSets, TLC

VARIABLES pc, nargs, file, xls_out, i, header, data, cols, header_line,
          macs_version, grid, k, saved, exit_code

vars == <<pc, nargs, file, xls_out, i, header, data, cols, header_line,
          macs_version, grid, k, saved, exit_code>>

-----------------------------------------------------------------------------
(* Bounds *)
MaxArgs == 3
MaxLines == 3
MaxRows == 3

-----------------------------------------------------------------------------
(* Text helpers (Python str methods) *)

SPACE == " "
TAB == "\t"
HASH == "#"

IsSpace(a) == a = SPACE \/ a = TAB

RECURSIVE LStrip(_)
LStrip(s) == IF s # <<>> /\ IsSpace(Head(s)) THEN LStrip(Tail(s)) ELSE s

RECURSIVE RStrip(_)
RStrip(s) == IF s # <<>> /\ IsSpace(s[Len(s)]) THEN RStrip(SubSeq(s, 1, Len(s) - 1)) ELSE s

Strip(s) == RStrip(LStrip(s))

StartsWith(s, p) == Len(s) >= Len(p) /\ SubSeq(s, 1, Len(p)) = p

\* s.split(sep): n occurrences of sep give n+1 fields, empty fields kept
RECURSIVE SplitOn(_, _, _, _)
SplitOn(s, sep, cur, acc) ==
    IF s = <<>> THEN Append(acc, cur)
    ELSE IF Head(s) = sep THEN SplitOn(Tail(s), sep, <<>>, Append(acc, cur))
    ELSE SplitOn(Tail(s), sep, Append(cur, Head(s)), acc)

Split(s, sep) == SplitOn(s, sep, <<>>, <<>>)

\* s.split(): tokens separated by runs of whitespace, no empty tokens
RECURSIVE SplitWS(_, _, _)
SplitWS(s, cur, acc) ==
    IF s = <<>> THEN (IF cur = <<>> THEN acc ELSE Append(acc, cur))
    ELSE IF IsSpace(Head(s))
         THEN SplitWS(Tail(s), <<>>, IF cur = <<>> THEN acc ELSE Append(acc, cur))
         ELSE SplitWS(Tail(s), Append(cur, Head(s)), acc)

WSplit(s) == SplitWS(s, <<>>, <<>>)

\* sep.join(fields)
RECURSIVE Join(_, _)
Join(fields, sep) ==
    IF fields = <<>> THEN <<>>
    ELSE IF Len(fields) = 1 THEN fields[1]
    ELSE fields[1] \o <<sep>> \o Join(Tail(fields), sep)

\* float(s) / int(s) for the numeric atoms that occur in the inputs;
\* floats are held in tenths
FloatVal == [a \in {"1.0", "2", "2.0", "3.0", "5.0", "10", "1.3"} |->
               CASE a = "1.0" -> 10 [] a = "2" -> 20 [] a = "2.0" -> 20
                 [] a = "3.0" -> 30 [] a = "5.0" -> 50 [] a = "10" -> 100
                 [] a = "1.3" -> 13]

IntVal == [a \in {"150", "350"} |-> CASE a = "150" -> 150 [] a = "350" -> 350]

IsFloat(f) == Len(f) = 1 /\ f[1] \in DOMAIN FloatVal
IsInt(f) == Len(f) = 1 /\ f[1] \in DOMAIN IntVal

-----------------------------------------------------------------------------
(* Program constants *)

ColumnNames == <<"chr", "start", "end", "length", "abs_summit", "pileup",
                 "-log10(pvalue)", "fold_enrichment", "-log10(qvalue)">>

VersionPrefix == <<"#", " ", "This", " ", "file", " ", "is", " ", "generated", " ",
                   "by", " ", "MACS", " ", "version", " ">>

None == <<>>

ExitUsage == 2
ExitError == 1
ExitOK == 0
NoExit == -1

-----------------------------------------------------------------------------
(* TabFile: a table is a list of column names (cols) and a list of rows;   *)
(* a row holds one text field per column.  ln is the number of the input   *)
(* line the row was read from (bookkeeping for the properties only).       *)

ColIndex(cs, name) == CHOOSE j \in 1..Len(cs) : cs[j] = name

Get(cs, row, name) == row.v[ColIndex(cs, name)]

\* TabDataLine(line, column_names): split on tabs, one value per column
TabDataLine(cs, line, n) ==
    LET fields == Split(line, TAB)
    IN  [ln |-> n,
         v  |-> [j \in 1..Len(cs) |-> IF j <= Len(fields) THEN fields[j] ELSE <<>>]]

\* str(line): the values joined by tabs
Str(row) == Join(row.v, TAB)

\* sort key: the column's value as a floating point number
Key(cs, row, name) == FloatVal[Get(cs, row, name)[1]]

Precedes(a, b, reverse) == IF reverse THEN a > b ELSE a < b

\* position of row r in the sorted list srt: after every row it does not
\* strictly precede (rows with equal keys keep their order)
RECURSIVE InsertStable(_, _, _, _, _)
InsertStable(srt, r, cs, name, reverse) ==
    IF srt = <<>> THEN <<r>>
    ELSE IF Precedes(Key(cs, r, name), Key(cs, Head(srt), name), reverse)
         THEN <<r>> \o srt
         ELSE <<Head(srt)>> \o InsertStable(Tail(srt), r, cs, name, reverse)

\* TabFile.sort(keyfunc, reverse): stable sort of the rows
RECURSIVE SortFrom(_, _, _, _, _)
SortFrom(rows, srt, cs, name, reverse) ==
    IF rows = <<>> THEN srt
    ELSE SortFrom(Tail(rows), InsertStable(srt, Head(rows), cs, name, reverse),
                  cs, name, reverse)

SortBy(rows, cs, name, reverse) == SortFrom(rows, <<>>, cs, name, reverse)

\* the key function raises on a value that is not a number
KeyRaises(rows, cs, name) == \E j \in 1..Len(rows) : ~IsFloat(Get(cs, rows[j], name))

\* TabFile.insert(index, tabdata): index is 0-based
InsertRow(rows, index, row) ==
    SubSeq(rows, 1, index) \o <<row>> \o SubSeq(rows, index + 1, Len(rows))

\* TabFile.appendColumn(name): every row gets an empty value
AppendColumn(rows) == [j \in 1..Len(rows) |-> [rows[j] EXCEPT !.v = Append(@, <<>>)]]

\* line[name] = value
SetItem(cs, row, name, val) == [row EXCEPT !.v[ColIndex(cs, name)] = val]

\* TabFile.reorderColumns(new_columns): a new table with the columns in
\* the given order
ReorderRows(rows, cs, newcs) ==
    [j \in 1..Len(rows) |->
        [ln |-> rows[j].ln,
         v  |-> [c \in 1..Len(newcs) |-> Get(cs, rows[j], newcs[c])]]]

-----------------------------------------------------------------------------
(* Spreadsheet: a sheet is a grid of cells; a cell is text, or a formula   *)
(* "=<ref><row><+off>" referring to the cell in column ref of row r.       *)

Letters == <<"A", "B", "C", "D", "E", "F", "G", "H", "I", "J", "K", "L", "M", "N", "O", "P">>

LetterIndex(l) == CHOOSE j \in 1..Len(Letters) : Letters[j] = l

TextCell(t) == [t |-> t, ref |-> "", off |-> 0, r |-> 0]
FormulaCell(ref, off, r) == [t |-> <<>>, ref |-> ref, off |-> off, r |-> r]

\* Worksheet.addText(text): one sheet row per line, one cell per tab-separated item
AddText(rows) == [j \in 1..Len(rows) |->
                    LET items == Split(Str(rows[j]), TAB)
                    IN  [c \in 1..Len(items) |-> TextCell(items[c])]]

\* Worksheet.insertColumn(position, title, insert_items): position is
\* 0-based; the first row gets the title, every other row the item with
\* "?" replaced by the row number
InsertColumnAt(g, col) ==
    [j \in 1..Len(g) |->
        LET cell == IF j = 1 THEN TextCell(<<col.title>>)
                    ELSE FormulaCell(col.ref, col.off, j)
        IN  SubSeq(g[j], 1, col.pos) \o <<cell>> \o SubSeq(g[j], col.pos + 1, Len(g[j]))]

\* the value a spreadsheet shows for the cell in row r, column c
Eval(g, r, c) ==
    LET cell == g[r][c]
    IN  IF cell.ref = "" THEN cell.t
        ELSE LET tc == LetterIndex(cell.ref)
             IN  IF tc > Len(g[cell.r]) THEN <<"#REF!">>
                 ELSE LET target == g[cell.r][tc]
                      IN  IF target.ref # "" THEN <<"#CIRC!">>
                          ELSE IF IsInt(target.t) THEN <<ToString(IntVal[target.t[1]] + cell.off)>>
                          ELSE IF cell.off = 0 THEN target.t
                          ELSE <<"#VALUE!">>

-----------------------------------------------------------------------------
(* Input files *)

MkRow(chr, abs, pv, fe) ==
    <<chr, TAB, "100", TAB, "200", TAB, "100", TAB, abs, TAB, "10", TAB,
      pv, TAB, fe, TAB, "1.0">>

L_ver == VersionPrefix \o <<"2.0.10">>
L_sub == <<"#", " ", "generated", " ", "by", " ", "MACS", " ", "version", " ", "2">>
L_vnotok == VersionPrefix
L_cmt == <<"#", " ", "name", " ">>
L_blank == <<>>
L_ws == <<" ", TAB>>
L_lead == <<" ", "#", " ", "c">>
L_col == Join([j \in 1..Len(ColumnNames) |-> <<ColumnNames[j]>>], TAB)
L_row == MkRow("chr1", "150", "2.0", "5.0")

ParseLines == {L_ver, L_sub, L_vnotok, L_cmt, L_blank, L_ws, L_lead, L_col, L_row}

R_a == MkRow("chr1", "150", "2.0", "5.0")
R_b == MkRow("chr1", "350", "3.0", "1.0")
R_c == MkRow("chr2", "150", "2.0", "1.0")
R_d == MkRow("chr2", "350", "2", "10")
R_badpv == MkRow("chr1", "150", "x", "1.0")
R_badfe == MkRow("chr1", "150", "2.0", "n/a")
R_short == <<"chr1", TAB, "100", TAB, "200", TAB, "100", TAB, "150", TAB, "10", TAB, "2.0">>

SortRows == {R_a, R_b, R_c, R_d, R_badpv, R_badfe, R_short}

SeqsUpTo(S, n) == UNION {[1..m -> S] : m \in 0..n}

ParseFiles == SeqsUpTo(ParseLines, MaxLines)
SortFiles == {<<L_ver, first>> \o rows : first \in {L_col, R_c}, rows \in SeqsUpTo(SortRows, MaxRows)}
Files == ParseFiles \cup SortFiles

-----------------------------------------------------------------------------
(* The script *)

\* variant: the line is trimmed before the comment marker is looked for
IsHeaderLine_trimfirst(line) == StartsWith(Strip(line), <<HASH>>) \/ Strip(line) = <<>>

\* line.startswith('#') or line.strip() == ''
IsHeaderLine(line) == StartsWith(line, <<HASH>>) \/ Strip(line) = <<>>

\* variant: a default version when no header line gives one
RECURSIVE DetectMacsVersion_default(_)
DetectMacsVersion_default(hdr) ==
    IF hdr = <<>> THEN <<"unknown">>
    ELSE IF StartsWith(Head(hdr).s, VersionPrefix) THEN WSplit(Head(hdr).s)[9]
    ELSE DetectMacsVersion_default(Tail(hdr))

\* the first header line that starts with the version prefix gives the
\* version: its 9th whitespace-separated token; None when there is none
RECURSIVE DetectMacsVersion(_)
DetectMacsVersion(hdr) ==
    IF hdr = <<>> THEN None
    ELSE IF StartsWith(Head(hdr).s, VersionPrefix) THEN WSplit(Head(hdr).s)[9]
    ELSE DetectMacsVersion(Tail(hdr))

\* variants: the two sorts in the other order; the first sort only
SortColumns_swapped == <<"-log10(pvalue)", "fold_enrichment">>
SortColumns_first == <<"fold_enrichment">>

\* the columns of the two sorts, in the order the sorts are made
SortColumns == <<"fold_enrichment", "-log10(pvalue)">>

RECURSIVE SortPasses(_, _, _)
SortPasses(rows, cs, names) ==
    IF names = <<>> THEN rows
    ELSE SortPasses(SortBy(rows, cs, Head(names), TRUE), cs, Tail(names))

\* variant: a single sort, on -log10(pvalue)
TwoPassSort_single(rows, cs) == SortBy(rows, cs, "-log10(pvalue)", TRUE)

TwoPassSort(rows, cs) == SortPasses(rows, cs, SortColumns)

SortRaises(rows, cs) == \E j \in 1..Len(SortColumns) : KeyRaises(rows, cs, SortColumns[j])

\* variants: the line is appended; the line overwrites row 0
RestoreFirstLine_append(rows, cs, hl) == InsertRow(rows, Len(rows), TabDataLine(cs, hl.s, hl.ln))
RestoreFirstLine_overwrite(rows, cs, hl) ==
    <<TabDataLine(cs, hl.s, hl.ln)>> \o (IF rows = <<>> THEN <<>> ELSE Tail(rows))

\* data.insert(0,tabdata=header_line)
RestoreFirstLine(rows, cs, hl) == InsertRow(rows, 0, TabDataLine(cs, hl.s, hl.ln))

\* data[0]['order'] = "#order"; data[i]['order'] = i for i in range(1,len(data))
OrderValue(idx) == IF idx = 0 THEN <<"#order">> ELSE <<ToString(idx)>>

\* variant: the order values are assigned before the column-name row's index is skipped
InsertOrder_shifted(rows, cs) ==
    [j \in 1..Len(rows) |-> SetItem(cs, rows[j], "order", OrderValue(IF j = 1 THEN 0 ELSE j))]

InsertOrder(rows, cs) ==
    [j \in 1..Len(rows) |-> SetItem(cs, rows[j], "order", OrderValue(j - 1))]

FinalColumns == <<"order", "chr", "start", "end", "length", "abs_summit", "pileup",
                  "-log10(pvalue)", "fold_enrichment", "-log10(qvalue)">>

\* variant: abs_summit referred to by the letter it has before the insertions
FormulaColumns_oldletter ==
    << [pos |-> 4, title |-> "chr",            ref |-> "B", off |-> 0],
       [pos |-> 5, title |-> "abs_summit-100", ref |-> "F", off |-> -100],
       [pos |-> 6, title |-> "abs_summit+100", ref |-> "F", off |-> 100],
       [pos |-> 7, title |-> "chr",            ref |-> "B", off |-> 0],
       [pos |-> 8, title |-> "summit-1",       ref |-> "F", off |-> -1],
       [pos |-> 9, title |-> "summit",         ref |-> "F", off |-> 0] >>

FormulaColumns ==
    << [pos |-> 4, title |-> "chr",            ref |-> "B", off |-> 0],
       [pos |-> 5, title |-> "abs_summit-100", ref |-> "L", off |-> -100],
       [pos |-> 6, title |-> "abs_summit+100", ref |-> "L", off |-> 100],
       [pos |-> 7, title |-> "chr",            ref |-> "B", off |-> 0],
       [pos |-> 8, title |-> "summit-1",       ref |-> "L", off |-> -1],
       [pos |-> 9, title |-> "summit",         ref |-> "L", off |-> 0] >>

Init ==
    /\ pc = "start"
    /\ nargs \in 0..MaxArgs
    /\ file \in Files
    /\ xls_out = ""
    /\ i = 0
    /\ header = <<>>
    /\ data = <<>>
    /\ cols = ColumnNames
    /\ header_line = [ln |-> 0, s |-> <<>>]
    /\ macs_version = None
    /\ grid = <<>>
    /\ k = 0
    /\ saved = FALSE
    /\ exit_code = NoExit

Exit(code) == /\ pc' = "exit"
              /\ exit_code' = code

\* p.error("Wrong number of arguments")
ArgError ==
    /\ pc = "start"
    /\ (nargs < 1 \/ nargs > 2)
    /\ Exit(ExitUsage)
    /\ UNCHANGED <<nargs, file, xls_out, i, header, data, cols, header_line,
                   macs_version, grid, k, saved>>

ParseArgs ==
    /\ pc = "start"
    /\ ~(nargs < 1 \/ nargs > 2)
    /\ xls_out' = IF nargs = 2 THEN "XLS_OUT" ELSE "XLS_<MACS2_OUTPUT>.xls"
    /\ pc' = "read"
    /\ UNCHANGED <<nargs, file, i, header, data, cols, header_line,
                   macs_version, grid, k, saved, exit_code>>

ReadHeaderLine ==
    /\ pc = "read"
    /\ i < Len(file)
    /\ IsHeaderLine(file[i + 1])
    /\ header' = Append(header, [ln |-> i + 1, s |-> Strip(file[i + 1])])
    /\ i' = i + 1
    /\ UNCHANGED <<pc, nargs, file, xls_out, data, cols, header_line,
                   macs_version, grid, k, saved, exit_code>>

ReadDataLine ==
    /\ pc = "read"
    /\ i < Len(file)
    /\ ~IsHeaderLine(file[i + 1])
    /\ data' = Append(data, TabDataLine(cols, Strip(file[i + 1]), i + 1))
    /\ i' = i + 1
    /\ UNCHANGED <<pc, nargs, file, xls_out, header, cols, header_line,
                   macs_version, grid, k, saved, exit_code>>

CloseFile ==
    /\ pc = "read"
    /\ i = Len(file)
    /\ pc' = "remove"
    /\ UNCHANGED <<nargs, file, xls_out, i, header, data, cols, header_line,
                   macs_version, grid, k, saved, exit_code>>

\* header_line = str(data[0]); del(data[0])
RemoveFirstLine ==
    /\ pc = "remove"
    /\ data # <<>>
    /\ header_line' = [ln |-> data[1].ln, s |-> Str(data[1])]
    /\ data' = Tail(data)
    /\ pc' = "detect"
    /\ UNCHANGED <<nargs, file, xls_out, i, header, cols, macs_version, grid, k,
                   saved, exit_code>>

\* data[0] on an empty table raises
NoFirstLine ==
    /\ pc = "remove"
    /\ data = <<>>
    /\ Exit(ExitError)
    /\ UNCHANGED <<nargs, file, xls_out, i, header, data, cols, header_line,
                   macs_version, grid, k, saved>>

DetectVersion ==
    /\ pc = "detect"
    /\ DetectMacsVersion(header) # None
    /\ macs_version' = DetectMacsVersion(header)
    /\ pc' = "sort"
    /\ UNCHANGED <<nargs, file, xls_out, i, header, data, cols, header_line, grid, k,
                   saved, exit_code>>

\* variant: sys.exit() without a status
VersionFail_nostatus ==
    /\ pc = "detect"
    /\ DetectMacsVersion(header) = None
    /\ Exit(ExitOK)
    /\ UNCHANGED <<nargs, file, xls_out, i, header, data, cols, header_line,
                   macs_version, grid, k, saved>>

\* logging.error("couldn't detect MACS version"); sys.exit(1)
VersionFail ==
    /\ pc = "detect"
    /\ DetectMacsVersion(header) = None
    /\ Exit(ExitError)
    /\ UNCHANGED <<nargs, file, xls_out, i, header, data, cols, header_line,
                   macs_version, grid, k, saved>>

SortData ==
    /\ pc = "sort"
    /\ ~SortRaises(data, cols)
    /\ data' = TwoPassSort(data, cols)
    /\ pc' = "restore"
    /\ UNCHANGED <<nargs, file, xls_out, i, header, cols, header_line, macs_version,
                   grid, k, saved, exit_code>>

SortFail ==
    /\ pc = "sort"
    /\ SortRaises(data, cols)
    /\ Exit(ExitError)
    /\ UNCHANGED <<nargs, file, xls_out, i, header, data, cols, header_line,
                   macs_version, grid, k, saved>>

RestoreLine ==
    /\ pc = "restore"
    /\ data' = RestoreFirstLine(data, cols, header_line)
    /\ pc' = "order"
    /\ UNCHANGED <<nargs, file, xls_out, i, header, cols, header_line, macs_version,
                   grid, k, saved, exit_code>>

OrderColumn ==
    /\ pc = "order"
    /\ cols' = Append(cols, "order")
    /\ data' = InsertOrder(AppendColumn(data), cols')
    /\ pc' = "reorder"
    /\ UNCHANGED <<nargs, file, xls_out, i, header, header_line, macs_version,
                   grid, k, saved, exit_code>>

ReorderColumns ==
    /\ pc = "reorder"
    /\ data' = ReorderRows(data, cols, FinalColumns)
    /\ cols' = FinalColumns
    /\ pc' = "render"
    /\ UNCHANGED <<nargs, file, xls_out, i, header, header_line, macs_version,
                   grid, k, saved, exit_code>>

\* ws_data.addText(str(data))
RenderData ==
    /\ pc = "render"
    /\ grid' = AddText(data)
    /\ k' = 1
    /\ pc' = "insert"
    /\ UNCHANGED <<nargs, file, xls_out, i, header, data, cols, header_line,
                   macs_version, saved, exit_code>>

InsertColumn ==
    /\ pc = "insert"
    /\ k <= Len(FormulaColumns)
    /\ grid' = InsertColumnAt(grid, FormulaColumns[k])
    /\ k' = k + 1
    /\ UNCHANGED <<pc, nargs, file, xls_out, i, header, data, cols, header_line,
                   macs_version, saved, exit_code>>

\* wb.save(xls_out), then the script ends
Save ==
    /\ pc = "insert"
    /\ k > Len(FormulaColumns)
    /\ saved' = TRUE
    /\ pc' = "done"
    /\ exit_code' = ExitOK
    /\ UNCHANGED <<nargs, file, xls_out, i, header, data, cols, header_line,
                   macs_version, grid, k>>

Next ==
    \/ ArgError
    \/ ParseArgs
    \/ ReadHeaderLine
    \/ ReadDataLine
    \/ CloseFile
    \/ RemoveFirstLine
    \/ NoFirstLine
    \/ DetectVersion
    \/ VersionFail
    \/ SortData
    \/ SortFail
    \/ RestoreLine
    \/ OrderColumn
    \/ ReorderColumns
    \/ RenderData
    \/ InsertColumn
    \/ Save

Spec == Init /\ [][Next]_vars

-----------------------------------------------------------------------------
(* Properties *)

\* the classification of an input line, as the specification words it
StartsWithMarker(line) == line # <<>> /\ line[1] = HASH
Blank(line) == \A j \in 1..Len(line) : IsSpace(line[j])
HeaderLineOfInput(line) == StartsWithMarker(line) \/ Blank(line)

NonHeaderLines == {j \in 1..Len(file) : ~HeaderLineOfInput(file[j])}
FirstNonHeader == LET nh == NonHeaderLines IN CHOOSE j \in nh : \A m \in nh : j <= m
PeakLines == LET nh == NonHeaderLines IN {j \in nh : \E m \in nh : m < j}

Sorted == pc \in {"restore", "order", "reorder", "render", "insert", "done"}
Restored == pc \in {"order", "reorder", "render", "insert", "done"}
Ordered == pc \in {"reorder", "render", "insert", "done"}

\* the data rows of the table: all rows but the column-name row
DataRows == IF Restored THEN Tail(data) ELSE data

PV(row) == FloatVal[Get(cols, row, "-log10(pvalue)")[1]]
FE(row) == FloatVal[Get(cols, row, "fold_enrichment")[1]]

\* C1: after the two sorts the data rows are in the order of a single stable
\* sort on the composite key: for r before s, pvalue(r) > pvalue(s), or the
\* pvalues are equal and fold_enrichment(r) > fold_enrichment(s), or both
\* keys are equal and r preceded s in the input file
C1_CompositeOrder ==
    Sorted =>
        \A a, b \in 1..Len(DataRows) :
            a < b =>
                LET r == DataRows[a]
                    s == DataRows[b]
                IN  \/ PV(r) > PV(s)
                    \/ PV(r) = PV(s) /\ FE(r) > FE(s)
                    \/ PV(r) = PV(s) /\ FE(r) = FE(s) /\ r.ln < s.ln

\* a finished run where the tie-break on fold_enrichment reversed the input
\* order of two rows, and two rows equal on both keys kept theirs
C1_Witness ==
    /\ pc = "done"
    /\ \E a, b \in 1..Len(DataRows) :
          /\ a < b
          /\ PV(DataRows[a]) = PV(DataRows[b])
          /\ FE(DataRows[a]) > FE(DataRows[b])
          /\ DataRows[a].ln > DataRows[b].ln
    /\ \E a, b \in 1..Len(DataRows) :
          /\ a < b
          /\ PV(DataRows[a]) = PV(DataRows[b])
          /\ FE(DataRows[a]) = FE(DataRows[b])

VersionSubstring == <<"generated", " ", "by", " ", "MACS", " ", "version", " ">>

Contains(s, sub) ==
    \E j \in 0..(Len(s) - Len(sub)) : SubSeq(s, j + 1, j + Len(sub)) = sub

\* no header line of the input, as collected, contains the version text
NoVersionText ==
    \A j \in 1..Len(file) :
        HeaderLineOfInput(file[j]) => ~Contains(Strip(file[j]), VersionSubstring)

\* C2: if no header line contains "generated by MACS version " the program
\* ends with a non-zero exit status and never saves the workbook; the
\* workbook is saved only when a version token was detected
C2_NoVersionNoSave ==
    /\ NoVersionText =>
          /\ ~saved
          /\ pc # "done"
          /\ pc = "exit" => exit_code # 0
          /\ pc # "exit" => ENABLED Next
    /\ saved => macs_version # None

\* the version check itself ended the run
C2_Witness ==
    /\ NoVersionText
    /\ pc = "exit"
    /\ nargs \in 1..2
    /\ i = Len(file)
    /\ header # <<>>
    /\ header_line.ln > 0
    /\ macs_version = None
    /\ exit_code = 1

\* C3: the order value of the column-name row is the label "#order"; the
\* order value of the row at position n (n = 1 .. number of data rows) is n
C3_OrderColumn ==
    Ordered =>
        /\ Get(cols, data[1], "order") = <<"#order">>
        /\ \A n \in 1..(Len(data) - 1) : Get(cols, data[n + 1], "order") = <<ToString(n)>>

\* a finished run in which the sort changed the order of the rows
C3_Witness ==
    /\ pc = "done"
    /\ Len(data) >= 4
    /\ \E a, b \in 2..Len(data) : a < b /\ data[a].ln > data[b].ln

\* C4: the first non-header line is out of the table during the sorts and
\* is row 0 of the table afterwards, with the field values it had
C4_ColumnNameRow ==
    /\ pc \in {"detect", "sort", "restore"} =>
          /\ header_line.ln = FirstNonHeader
          /\ \A j \in 1..Len(data) : data[j].ln # FirstNonHeader
    /\ Restored =>
          /\ data[1].ln = FirstNonHeader
          /\ \A c \in 1..Len(ColumnNames) :
                Get(cols, data[1], ColumnNames[c]) =
                    TabDataLine(ColumnNames, Strip(file[FirstNonHeader]), 0).v[c]

\* a finished run whose first non-header line has numeric keys that would
\* sort it after a data row
C4_Witness ==
    /\ pc = "done"
    /\ Len(data) >= 3
    /\ IsFloat(Get(cols, data[1], "-log10(pvalue)"))
    /\ \E j \in 2..Len(data) : PV(data[j]) > PV(data[1])

FormulaCells == 5..10

\* C5: after the six insertions the inserted cells of every data row show
\* the row's chr, abs_summit - 100, abs_summit + 100, chr, abs_summit - 1
\* and abs_summit; the column-name row has the six titles
C5_DerivedColumns ==
    pc = "done" =>
        /\ Len(grid) = Len(data)
        /\ <<Eval(grid, 1, 5), Eval(grid, 1, 6), Eval(grid, 1, 7),
             Eval(grid, 1, 8), Eval(grid, 1, 9), Eval(grid, 1, 10)>> =
           << <<"chr">>, <<"abs_summit-100">>, <<"abs_summit+100">>,
              <<"chr">>, <<"summit-1">>, <<"summit">> >>
        /\ \A r \in 2..Len(grid) :
              LET chr == Get(cols, data[r], "chr")
                  abs == IntVal[Get(cols, data[r], "abs_summit")[1]]
              IN  /\ IsInt(Get(cols, data[r], "abs_summit"))
                  /\ Eval(grid, r, 5) = chr
                  /\ Eval(grid, r, 6) = <<ToString(abs - 100)>>
                  /\ Eval(grid, r, 7) = <<ToString(abs + 100)>>
                  /\ Eval(grid, r, 8) = chr
                  /\ Eval(grid, r, 9) = <<ToString(abs - 1)>>
                  /\ Eval(grid, r, 10) = <<ToString(abs)>>

\* a finished run with a row of abs_summit 150 on chr2 showing 50, 250, 149, 150
C5_Witness ==
    /\ pc = "done"
    /\ \E r \in 2..Len(grid) :
          /\ Get(cols, data[r], "abs_summit") = <<"150">>
          /\ <<Eval(grid, r, 5), Eval(grid, r, 6), Eval(grid, r, 7),
               Eval(grid, r, 8), Eval(grid, r, 9), Eval(grid, r, 10)>> =
             << <<"chr2">>, <<"50">>, <<"250">>, <<"chr2">>, <<"149">>, <<"150">> >>
    /\ \E r \in 2..Len(grid) : Get(cols, data[r], "abs_summit") = <<"350">>

\* C6: after the sort and the reinsertion the table has as many rows as
\* the input has non-header lines, and through to the rendered sheet
C6_RowCount ==
    /\ Restored =>
          /\ Len(data) = Cardinality(NonHeaderLines)
          /\ Len(data) - 1 = Cardinality(PeakLines)
          /\ {data[j].ln : j \in 1..Len(data)} = NonHeaderLines
    /\ pc \in {"insert", "done"} => Len(grid) = Cardinality(NonHeaderLines)

C6_Witness ==
    /\ pc = "done"
    /\ Cardinality(PeakLines) >= 3
    /\ Len(header) >= 1
    /\ \E a, b \in 2..Len(data) : a < b /\ data[a].ln > data[b].ln

ArgCountWrong == nargs < 1 \/ nargs > 2
VersionUndetected == pc = "exit" /\ ~ArgCountWrong /\ header_line.ln > 0 /\ macs_version = None

\* C7 as stated: exit code 1 on a wrong number of arguments, 1 when the
\* version token is not detected, 0 on success
C7_ExitCodes_AsStated ==
    /\ (pc = "exit" /\ ArgCountWrong) => exit_code = 1
    /\ VersionUndetected => exit_code = 1
    /\ pc = "done" => exit_code = 0

\* C7 amended: exit code 2 on a wrong number of arguments, 1 when the
\* version token is not detected, 0 on success
C7_ExitCodes ==
    /\ (pc = "exit" /\ ArgCountWrong) => exit_code = 2
    /\ VersionUndetected => exit_code = 1
    /\ pc = "done" => exit_code = 0 /\ saved /\ ~ArgCountWrong /\ macs_version # None
    /\ (pc \notin {"exit", "done"}) => exit_code = NoExit

C7_Witness ==
    /\ VersionUndetected
    /\ exit_code = 1
    /\ data # <<>>

\* some peak line has a missing or non-numeric fold_enrichment or -log10(pvalue)
BadSortKey ==
    \E j \in PeakLines :
        LET fields == Split(Strip(file[j]), TAB)
        IN  \/ Len(fields) < 8
            \/ ~IsFloat(fields[7])
            \/ ~IsFloat(fields[8])

Resort(rows) ==
    SortBy(SortBy(rows, cols, "fold_enrichment", TRUE), cols, "-log10(pvalue)", TRUE)

\* C9: sorting the data rows of the output again, fold_enrichment then
\* -log10(pvalue), stable and descending, gives the same order
C9_SortIdempotent == Sorted => Resort(DataRows) = DataRows

C9_Witness ==
    /\ pc = "done"
    /\ Len(DataRows) >= 3
    /\ \E a, b \in 1..Len(DataRows) : a < b /\ DataRows[a].ln > DataRows[b].ln
    /\ Resort(DataRows) = DataRows

Increasing(lns) == \A a, b \in 1..Len(lns) : a < b => lns[a] < lns[b]

\* C10: every line read went to exactly one of the header list and the
\* table; it is a header line iff it starts with '#' or is blank; both keep
\* the input order, header lines trimmed; the two counts add up to the
\* number of lines read
C10_Partition ==
    pc \in {"read", "remove"} =>
        /\ \A j \in 1..i :
              /\ HeaderLineOfInput(file[j]) <=> \E h \in 1..Len(header) : header[h].ln = j
              /\ ~HeaderLineOfInput(file[j]) <=> \E d \in 1..Len(data) : data[d].ln = j
        /\ Increasing([h \in 1..Len(header) |-> header[h].ln])
        /\ Increasing([d \in 1..Len(data) |-> data[d].ln])
        /\ \A h \in 1..Len(header) : header[h].ln \in 1..i /\ header[h].s = Strip(file[header[h].ln])
        /\ \A d \in 1..Len(data) : data[d].ln \in 1..i
        /\ Len(header) + Len(data) = i
        /\ pc = "remove" => i = Len(file)

\* the whole file is read; it has a line with whitespace before '#', read
\* as a data line, a whitespace-only header line and a comment
C10_Witness ==
    /\ pc = "remove"
    /\ \E d \in 1..Len(data) : file[data[d].ln] = L_lead
    /\ \E h \in 1..Len(header) : file[header[h].ln] = L_ws /\ header[h].s = <<>>
    /\ \E h \in 1..Len(header) : file[header[h].ln] = L_cmt /\ header[h].s # L_cmt

====
